---------------------------- MODULE Spec2Model ----------------------------
(***************************************************************************)
(* Location resolution of the NodeInterner                                 *)
(* (compiler/noirc_frontend/src/resolve_locations.rs).                      *)
(*                                                                         *)
(* The interner is an immutable snapshot of tables; the two public queries *)
(* get_definition_location_from and get_declaration_location_from walk it. *)
(* The linear scans are operators computed the way the code iterates; the  *)
(* Option combinator chains and the resolve_location recursion are stepped *)
(* by a program counter, one action per function body or combinator.       *)
(***************************************************************************)
EXTENDS Integers, Sequences, FiniteSets, TLC

(***************************************************************************)
(* Bounds of the model.                                                    *)
(***************************************************************************)
\* source positions are 0..MaxPos
MaxPos == 2
\* arena slots of the node store are 1..MaxIndex
MaxIndex == 3
\* longest table (location table, function table, impl table, field and method lists)
MaxLen == 2

FileIds == {1, 2}
Positions == 0..MaxPos
Indexes == 1..MaxIndex
DefinitionIds == {1, 2}
FuncIds == {1, 2}
StructIds == {1}
TraitIds == {1, 2}
Names == {"foo", "bar"}

(***************************************************************************)
(* Option<T>: None is the empty sequence, Some(v) the one-element sequence. *)
(***************************************************************************)
None == <<>>
Some(v) == <<v>>

(***************************************************************************)
(* Span and Location (noirc_errors).                                       *)
(***************************************************************************)
Spans == {sp \in [start : Positions, end : Positions] : sp.start <= sp.end}

Locations == [file : FileIds, span : Spans]

Location_new(span, file) == [file |-> file, span |-> span]

\* Span::contains: other lies within self
Span_contains(self, other) == self.start <= other.start /\ self.end >= other.end

\* Span::is_smaller: self covers fewer positions than other
is_smaller(self, other) == (self.end - self.start) < (other.end - other.start)

\* Location::contains: same file and the span contains the other span
contains(self, other) == self.file = other.file /\ Span_contains(self.span, other.span)

VARIABLES
    interner,     \* the NodeInterner (self): its tables, never written by a query
    pc,           \* the function body or combinator about to run
    query,        \* which public query is running: "definition" | "declaration"
    location,     \* the `location` argument of the public query
    index,        \* the `index` argument of the current resolve_location call
    expression,   \* the `expression` argument of resolve_expression_location
    found,        \* Option<Location>: value of find_location_index(..).and_then(resolve_location)
    result,       \* Option<Location>: the value the public query returned
    visited       \* history: the indexes resolve_location was called with in this query

vars == <<interner, pc, query, location, index, expression, found, result, visited>>

(***************************************************************************)
(* Lookups into the tables of the interner (node_interner.rs).             *)
(***************************************************************************)
\* Arena::get: the node in an occupied slot, None for a free slot
nodes_get(i) ==
    IF i \in DOMAIN interner.nodes /\ interner.nodes[i].node # "Free"
    THEN Some(interner.nodes[i]) ELSE None

\* NodeInterner::definition
definition(id) == interner.definitions[id]

\* position of FuncId f in the function metadata table
RECURSIVE func_meta_position(_, _)
func_meta_position(f, i) ==
    IF i > Len(interner.func_meta) THEN 0
    ELSE IF interner.func_meta[i].id = f THEN i
    ELSE func_meta_position(f, i + 1)

\* NodeInterner::function_meta
function_meta(f) == interner.func_meta[func_meta_position(f, 1)]

\* NodeInterner::function_name
function_name(f) == function_meta(f).name

\* NodeInterner::get_function_trait: the trait a function implements, if any
get_function_trait(f) == interner.func_id_to_trait[f]

\* NodeInterner::id_type
id_type(e) == interner.id_to_type[e]

\* self.traits.get(&trait_id)
traits_get(t) == interner.traits[t]

\* StructType::field_names
field_names(struct_type) == struct_type.fields

(***************************************************************************)
(* Iterator::find / Iterator::position over a sequence of flags: the first *)
(* position whose flag is TRUE, 0 when there is none.                      *)
(***************************************************************************)
RECURSIVE iter_find(_, _)
iter_find(flags, i) ==
    IF i > Len(flags) THEN 0
    ELSE IF flags[i] THEN i
    ELSE iter_find(flags, i + 1)

(***************************************************************************)
(* find_location_index: the scan keeps a candidate and replaces it only by *)
(* a containing entry whose span is_smaller.                               *)
(***************************************************************************)
\* the scan with the arguments of is_smaller exchanged: it keeps the largest candidate
RECURSIVE find_location_scan_swapped(_, _, _)
find_location_scan_swapped(loc, i, location_candidate) ==
    IF i > Len(interner.id_to_location) THEN location_candidate
    ELSE LET entry == interner.id_to_location[i] IN
         IF contains(entry.location, loc)
         THEN IF location_candidate # None
              THEN IF is_smaller(location_candidate[1].location.span, entry.location.span)
                   THEN find_location_scan_swapped(loc, i + 1, Some(entry))
                   ELSE find_location_scan_swapped(loc, i + 1, location_candidate)
              ELSE find_location_scan_swapped(loc, i + 1, Some(entry))
         ELSE find_location_scan_swapped(loc, i + 1, location_candidate)

RECURSIVE find_location_scan(_, _, _)
find_location_scan(loc, i, location_candidate) ==
    IF i > Len(interner.id_to_location) THEN location_candidate
    ELSE LET entry == interner.id_to_location[i] IN
         IF contains(entry.location, loc)
         THEN IF location_candidate # None
              THEN IF is_smaller(entry.location.span, location_candidate[1].location.span)
                   THEN find_location_scan(loc, i + 1, Some(entry))
                   ELSE find_location_scan(loc, i + 1, location_candidate)
              ELSE find_location_scan(loc, i + 1, Some(entry))
         ELSE find_location_scan(loc, i + 1, location_candidate)

find_location_index(loc) ==
    LET location_candidate == find_location_scan(loc, 1, None) IN
    IF location_candidate = None THEN None ELSE Some(location_candidate[1].index)

(***************************************************************************)
(* resolve_expression_location, the HirExpression::Ident arm                *)
(***************************************************************************)
\* the arm answering the location of the DefinitionInfo for a function too
resolve_ident_definition_site(ident) ==
    LET definition_info == definition(ident.id) IN
    CASE definition_info.kind = "Function" -> Some(definition_info.location)
      [] definition_info.kind = "Local" -> Some(definition_info.location)
      [] definition_info.kind = "Global" -> Some(definition_info.location)
      [] OTHER -> None

resolve_ident_location(ident) ==
    LET definition_info == definition(ident.id) IN
    CASE definition_info.kind = "Function" ->
             Some(function_meta(definition_info.func_id).location)
      [] definition_info.kind = "Local" -> Some(definition_info.location)
      [] definition_info.kind = "Global" -> Some(definition_info.location)
      [] OTHER -> None

(***************************************************************************)
(* resolve_struct_member_access                                            *)
(***************************************************************************)
\* the field found answered by the span of the struct's own location
resolve_struct_member_declaring_span(expr_member_access) ==
    LET expr_lhs == expr_member_access.lhs
        expr_rhs == expr_member_access.rhs
        lhs_type == id_type(expr_lhs)
    IN  IF lhs_type.type # "Struct" THEN None
        ELSE LET struct_type == interner.structs[lhs_type.struct]
                 names == field_names(struct_type)
                 at == iter_find([k \in 1..Len(names) |-> names[k].name = expr_rhs], 1)
             IN  IF at = 0 THEN None
                 ELSE Some(Location_new(struct_type.location.span, struct_type.location.file))

resolve_struct_member_access(expr_member_access) ==
    LET expr_lhs == expr_member_access.lhs
        expr_rhs == expr_member_access.rhs
        lhs_type == id_type(expr_lhs)
    IN  IF lhs_type.type # "Struct" THEN None
        ELSE LET struct_type == interner.structs[lhs_type.struct]
                 names == field_names(struct_type)
                 at == iter_find([k \in 1..Len(names) |-> names[k].name = expr_rhs], 1)
             IN  IF at = 0 THEN None
                 ELSE Some(Location_new(names[at].span, struct_type.location.file))

(***************************************************************************)
(* try_resolve_trait_impl_location                                         *)
(***************************************************************************)
\* the scan without the comparison of the files
try_resolve_trait_impl_any_file(loc) ==
    LET impls == interner.trait_implementations
        at == iter_find([k \in 1..Len(impls) |->
                            Span_contains(impls[k].ident_span, loc.span)], 1)
    IN  IF at = 0 THEN None
        ELSE LET trait_ == traits_get(impls[at].trait_id) IN
             IF trait_ = None THEN None ELSE Some(trait_[1].location)

try_resolve_trait_impl_location(loc) ==
    LET impls == interner.trait_implementations
        at == iter_find([k \in 1..Len(impls) |->
                            impls[k].file = loc.file
                            /\ Span_contains(impls[k].ident_span, loc.span)], 1)
    IN  IF at = 0 THEN None
        ELSE LET trait_ == traits_get(impls[at].trait_id) IN
             IF trait_ = None THEN None ELSE Some(trait_[1].location)

(***************************************************************************)
(* try_resolve_trait_method_declaration                                    *)
(***************************************************************************)
\* the scan looking only at functions that implement a trait
try_resolve_trait_method_of_trait_fn(loc) ==
    LET metas == interner.func_meta
        at == iter_find([k \in 1..Len(metas) |-> contains(metas[k].location, loc)
                                                /\ get_function_trait(metas[k].id) # None], 1)
    IN  IF at = 0 THEN None
        ELSE LET func_id == metas[at].id
                 trait_id == get_function_trait(func_id)
             IN  IF trait_id = None THEN None
                 ELSE LET trait_ == traits_get(trait_id[1]) IN
                      IF trait_ = None THEN None
                      ELSE LET methods == trait_[1].methods
                               m == iter_find([k \in 1..Len(methods) |->
                                        methods[k].name = function_name(func_id)], 1)
                           IN  IF m = 0 THEN None ELSE Some(methods[m].location)




try_resolve_trait_method_declaration(loc) ==
    LET metas == interner.func_meta
        at == iter_find([k \in 1..Len(metas) |-> contains(metas[k].location, loc)], 1)
    IN  IF at = 0 THEN None
        ELSE LET func_id == metas[at].id
                 trait_id == get_function_trait(func_id)
             IN  IF trait_id = None THEN None
                 ELSE LET trait_ == traits_get(trait_id[1]) IN
                      IF trait_ = None THEN None
                      ELSE LET methods == trait_[1].methods
                               m == iter_find([k \in 1..Len(methods) |->
                                        methods[k].name = function_name(func_id)], 1)
                           IN  IF m = 0 THEN None ELSE Some(methods[m].location)



(***************************************************************************)
(* The tables a query can meet.  Every table is a value of its Rust type;  *)
(* the specifications below draw the interner from families of them.       *)
(***************************************************************************)
SeqsUpTo(S, n) == UNION {[1..k -> S] : k \in 0..n}

L(f, s, e) == [file |-> f, span |-> [start |-> s, end |-> e]]

\* an enclosing span, a span strictly inside it, and a span of the other file
Anchors == {L(1, 0, MaxPos), L(1, 1, 1), L(2, 0, 0)}

\* id_to_location in iteration order: (index, location) pairs with distinct indexes
LocationTables(n, locs) ==
    {t \in SeqsUpTo([index : Indexes, location : locs], n) :
        \A i, j \in 1..Len(t) : i # j => t[i].index # t[j].index}

\* Node and HirExpression
Free == [node |-> "Free"]
Statement == [node |-> "Statement"]
Function(e) == [node |-> "Function", as_expr |-> e]
Expression(e) == [node |-> "Expression", expression |-> e]
Ident(d) == [kind |-> "Ident", id |-> d]
Constructor(s) == [kind |-> "Constructor", type |-> s]
MemberAccess(lhs, rhs) == [kind |-> "MemberAccess", lhs |-> lhs, rhs |-> rhs]
Call(f) == [kind |-> "Call", func |-> f]
Literal == [kind |-> "Literal"]

RecursiveNodes == {Function(i) : i \in Indexes} \cup {Expression(Call(i)) : i \in Indexes}
IdentNodes == {Expression(Ident(d)) : d \in DefinitionIds}
StructNodes == {Expression(Constructor(s)) : s \in StructIds}
                 \cup {Expression(MemberAccess(i, n)) : i \in Indexes, n \in Names}
OtherNodes == {Free, Statement, Expression(Literal)}

\* DefinitionInfo
DefinitionKinds == {[kind |-> "Function", func_id |-> f] : f \in FuncIds}
                     \cup {[kind |-> k] : k \in {"Local", "Global", "GenericType"}}
DefinitionInfos(locs) ==
    {[kind |-> k.kind, func_id |-> IF k.kind = "Function" THEN k.func_id ELSE 0,
      location |-> l] : k \in DefinitionKinds, l \in locs}

\* func_meta in iteration order: one FuncMeta (with the function's name) per FuncId
FuncMetaTables(locs, names) ==
    {t \in [1..Cardinality(FuncIds) -> [id : FuncIds, location : locs, name : names]] :
        \A i, j \in 1..Len(t) : i # j => t[i].id # t[j].id}

\* traits: the Trait of a TraitId, None when the registry has none
TraitMethods(locs, n) == SeqsUpTo([name : Names, location : locs], n)
Traits(locs, method_locs, n) ==
    {None} \cup {Some(t) : t \in [location : locs, methods : TraitMethods(method_locs, n)]}

\* trait_implementations in stored order
TraitImplTables(n, spans) ==
    SeqsUpTo([file : FileIds, ident_span : spans, trait_id : TraitIds], n)

\* StructType and Type
StructTypes(locs, spans, n) ==
    [location : locs, fields : SeqsUpTo([name : Names, span : spans], n)]
Types == {[type |-> "Struct", struct |-> s] : s \in StructIds} \cup {[type |-> "Field", struct |-> 0]}

(***************************************************************************)
(* A small program: `impl T1 for ..` in file 2 with `fn foo`, and in file 1 *)
(* a call of foo whose callee is the identifier at slot 2.                  *)
(***************************************************************************)
Base ==
    [id_to_location |-> <<[index |-> 1, location |-> L(1, 0, MaxPos)]>>,
     nodes |-> [i \in Indexes |-> IF i = 1 THEN Expression(Call(2))
                                  ELSE IF i = 2 THEN Expression(Ident(1)) ELSE Free],
     definitions |-> [d \in DefinitionIds |->
                        IF d = 1 THEN [kind |-> "Function", func_id |-> 1, location |-> L(1, 1, 1)]
                        ELSE [kind |-> "Local", func_id |-> 0, location |-> L(1, 0, 0)]],
     func_meta |-> <<[id |-> 1, location |-> L(2, 1, MaxPos), name |-> "foo"],
                     [id |-> 2, location |-> L(1, 1, 1), name |-> "bar"]>>,
     func_id_to_trait |-> [f \in FuncIds |-> IF f = 1 THEN Some(1) ELSE None],
     traits |-> [t \in TraitIds |->
                    IF t = 1 THEN Some([location |-> L(2, 0, MaxPos),
                                        methods |-> <<[name |-> "foo", location |-> L(2, 1, 1)]>>])
                    ELSE None],
     trait_implementations |-> <<[file |-> 2, ident_span |-> [start |-> 0, end |-> 0], trait_id |-> 1]>>,
     structs |-> [s \in StructIds |->
                    [location |-> L(1, 0, 0), fields |-> <<[name |-> "foo", span |-> [start |-> 1, end |-> 1]]>>]],
     id_to_type |-> [i \in Indexes |-> [type |-> "Field", struct |-> 0]]]

\* the state of a query that has not started
Idle ==
    /\ pc = "idle"
    /\ query = "none"
    /\ location = L(1, 0, 0)
    /\ index = 0
    /\ expression = Literal
    /\ found = None
    /\ result = None
    /\ visited = {}

(***************************************************************************)
(* Families of interners.  Each family takes Base and lets the tables one  *)
(* group of functions reads range over their bounded sets.                 *)
(***************************************************************************)
Span0 == [start |-> 0, end |-> 0]
SpanAll == [start |-> 0, end |-> MaxPos]

\* the query chains: the recorded location, the node it names, the functions and the impls vary
ChainInterners ==
    {[Base EXCEPT !.id_to_location = table,
                  !.nodes[1] = first,
                  !.func_meta = metas,
                  !.func_id_to_trait = assoc,
                  !.trait_implementations = impls] :
        table \in LocationTables(1, Anchors),
        first \in OtherNodes \cup IdentNodes \cup {Expression(Call(2))},
        metas \in FuncMetaTables(Anchors, {"foo"}),
        assoc \in [FuncIds -> {None, Some(1)}],
        impls \in TraitImplTables(1, {Span0})}

\* find_location_index: every location table over the locations of file 1 and one of file 2
FindInterners ==
    {[Base EXCEPT !.id_to_location = table] :
        table \in LocationTables(MaxLen, {l \in Locations : l.file = 1} \cup {L(2, 0, MaxPos)})}

\* resolve_location: every node store of recursive and other nodes, cycles included
NodeInterners ==
    {[Base EXCEPT !.id_to_location = <<[index |-> start, location |-> L(1, 0, MaxPos)]>>,
                  !.nodes = store] :
        start \in Indexes,
        store \in [Indexes -> RecursiveNodes \cup OtherNodes \cup {Expression(Ident(2))}]}

\* the identifier arm: every definition table and function table over the anchors
IdentInterners ==
    {[Base EXCEPT !.nodes[1] = first,
                  !.definitions = defs,
                  !.func_meta = metas] :
        first \in IdentNodes \cup {Expression(Call(2))},
        defs \in [DefinitionIds -> DefinitionInfos(Anchors)],
        metas \in FuncMetaTables(Anchors, {"foo"})}

\* resolve_struct_member_access: every member access, typing and field list
MemberInterners ==
    {[Base EXCEPT !.nodes[1] = first,
                  !.id_to_type = types,
                  !.structs = structs] :
        first \in StructNodes \cup {Expression(Call(2))},
        types \in [Indexes -> Types],
        structs \in [StructIds -> StructTypes({L(1, 0, 0), L(2, 1, 1)}, Spans, MaxLen)]}

\* try_resolve_trait_impl_location: every impl table, with the recorded location and its node
ImplInterners ==
    {[Base EXCEPT !.id_to_location = table,
                  !.nodes[1] = first,
                  !.trait_implementations = impls] :
        table \in LocationTables(1, Anchors),
        first \in OtherNodes \cup IdentNodes \cup {Expression(Call(2))},
        impls \in TraitImplTables(MaxLen, {Span0, SpanAll})}

\* try_resolve_trait_method_declaration: every function table, association and method list
MethodInterners ==
    {[Base EXCEPT !.func_meta = metas,
                  !.func_id_to_trait = assoc,
                  !.traits = [t \in TraitIds |->
                                IF t = 1 THEN first
                                ELSE Some([location |-> L(1, 0, 0),
                                           methods |-> <<[name |-> "bar", location |-> L(1, 2, 2)]>>])]] :
        metas \in FuncMetaTables(Anchors, Names),
        assoc \in [FuncIds -> {None} \cup {Some(t) : t \in TraitIds}],
        first \in Traits({L(2, 0, MaxPos)}, {L(2, 1, 1), L(2, 2, 2)}, MaxLen)}

\* a call of a trait method: functions at disjoint locations, the call site anywhere
Disjoint(a, b) ==
    a.file # b.file \/ a.span.end < b.span.start \/ b.span.end < a.span.start
CallInterners ==
    {[Base EXCEPT !.id_to_location = <<[index |-> 1, location |-> site]>>,
                  !.func_meta = metas,
                  !.func_id_to_trait = assoc,
                  !.traits[1] = Some([location |-> L(2, 0, MaxPos),
                                      methods |-> <<[name |-> "foo", location |-> L(2, 1, 1)],
                                                    [name |-> "bar", location |-> L(2, 2, 2)]>>])] :
        site \in Locations,
        metas \in {t \in FuncMetaTables(Anchors, Names) : Disjoint(t[1].location, t[2].location)},
        assoc \in [FuncIds -> {None, Some(1)}]}

Init == interner \in ChainInterners /\ Idle
InitFind == interner \in FindInterners /\ Idle
InitNodes == interner \in NodeInterners /\ Idle
InitIdent == interner \in IdentInterners /\ Idle
InitMember == interner \in MemberInterners /\ Idle
InitImpl == interner \in ImplInterners /\ Idle
InitMethod == interner \in MethodInterners /\ Idle
InitCall == interner \in CallInterners /\ Idle

\* the chain returning a None of the Node Resolver from the definition query at once
and_then_resolved_no_fallback(caller, value) ==
    /\ found' = value
    /\ IF caller = "definition"
       THEN pc' = "done" /\ result' = value
       ELSE IF value # None
            THEN pc' = "and_then_found_impl_location" /\ UNCHANGED result
            ELSE pc' = "done" /\ result' = None

(***************************************************************************)
(* The Option chain after find_location_index(..).and_then(resolve_location)*)
(* has produced `value`: get_definition_location_from returns a Some and   *)
(* otherwise goes on to its first or_else; get_declaration_location_from   *)
(* feeds a Some to its last and_then and otherwise returns None.           *)
(***************************************************************************)
and_then_resolved(caller, value) ==
    /\ found' = value
    /\ IF caller = "definition"
       THEN IF value # None
            THEN pc' = "done" /\ result' = value
            ELSE pc' = "or_else_trait_impl" /\ UNCHANGED result
       ELSE IF value # None
            THEN pc' = "and_then_found_impl_location" /\ UNCHANGED result
            ELSE pc' = "done" /\ result' = None

\* find_location_index(location).and_then(|index| self.resolve_location(index)): the call
and_then_resolve_location(caller, found_index) ==
    IF found_index = None
    THEN and_then_resolved(caller, None) /\ UNCHANGED <<index, visited>>
    ELSE /\ pc' = "resolve_location"
         /\ index' = found_index[1]
         /\ visited' = {}
         /\ UNCHANGED <<found, result>>

(***************************************************************************)
(* get_definition_location_from(location)                                  *)
(***************************************************************************)
get_definition_location_from(loc) ==
    /\ pc = "idle"
    /\ query' = "definition"
    /\ location' = loc
    /\ and_then_resolve_location("definition", find_location_index(loc))
    /\ UNCHANGED <<interner, expression>>

\* the first or_else taking the trait method declaration before the trait impl
or_else_trait_method_first ==
    /\ pc = "or_else_trait_impl"
    /\ LET value == try_resolve_trait_method_declaration(location) IN
       IF value # None
       THEN pc' = "done" /\ result' = value
       ELSE pc' = "done" /\ result' = try_resolve_trait_impl_location(location)
    /\ UNCHANGED <<interner, query, location, index, expression, found, visited>>

\* .or_else(|| self.try_resolve_trait_impl_location(location))
or_else_trait_impl ==
    /\ pc = "or_else_trait_impl"
    /\ LET value == try_resolve_trait_impl_location(location) IN
       IF value # None
       THEN pc' = "done" /\ result' = value
       ELSE pc' = "or_else_trait_method_declaration" /\ UNCHANGED result
    /\ UNCHANGED <<interner, query, location, index, expression, found, visited>>

\* .or_else(|| self.try_resolve_trait_method_declaration(location))
or_else_trait_method_declaration ==
    /\ pc = "or_else_trait_method_declaration"
    /\ pc' = "done"
    /\ result' = try_resolve_trait_method_declaration(location)
    /\ UNCHANGED <<interner, query, location, index, expression, found, visited>>

(***************************************************************************)
(* get_declaration_location_from(location)                                 *)
(***************************************************************************)
get_declaration_location_from(loc) ==
    /\ pc = "idle"
    /\ query' = "declaration"
    /\ location' = loc
    /\ LET value == try_resolve_trait_method_declaration(loc) IN
       IF value # None
       THEN pc' = "done" /\ result' = value
       ELSE pc' = "or_else_find_location_index" /\ UNCHANGED result
    /\ UNCHANGED <<interner, index, expression, found, visited>>

\* .or_else(|| self.find_location_index(location).and_then(|index| self.resolve_location(index)) ..
or_else_find_location_index ==
    /\ pc = "or_else_find_location_index"
    /\ and_then_resolve_location("declaration", find_location_index(location))
    /\ UNCHANGED <<interner, query, location, expression>>

\* the last and_then asking again about the query instead of the location found
and_then_original_location ==
    /\ pc = "and_then_found_impl_location"
    /\ pc' = "done"
    /\ result' = try_resolve_trait_method_declaration(location)
    /\ UNCHANGED <<interner, query, location, index, expression, found, visited>>

\* .and_then(|found_impl_location| self.try_resolve_trait_method_declaration(found_impl_location))
and_then_found_impl_location ==
    /\ pc = "and_then_found_impl_location"
    /\ pc' = "done"
    /\ result' = try_resolve_trait_method_declaration(found[1])
    /\ UNCHANGED <<interner, query, location, index, expression, found, visited>>

\* the Function arm calling itself with its own index instead of the body expression
resolve_location_same_index ==
    /\ pc = "resolve_location"
    /\ visited' = visited \cup {index}
    /\ LET node == nodes_get(index) IN
       IF node = None
       THEN and_then_resolved(query, None) /\ UNCHANGED <<index, expression>>
       ELSE CASE node[1].node = "Function" ->
                    /\ index' = index
                    /\ pc' = "resolve_location"
                    /\ UNCHANGED <<expression, found, result>>
              [] node[1].node = "Expression" ->
                    /\ expression' = node[1].expression
                    /\ pc' = "resolve_expression_location"
                    /\ UNCHANGED <<index, found, result>>
              [] OTHER ->
                    and_then_resolved(query, None) /\ UNCHANGED <<index, expression>>
    /\ UNCHANGED <<interner, query, location>>

(***************************************************************************)
(* resolve_location(index): one call of the recursion.                     *)
(***************************************************************************)
resolve_location ==
    /\ pc = "resolve_location"
    /\ visited' = visited \cup {index}
    /\ LET node == nodes_get(index) IN
       IF node = None
       THEN and_then_resolved(query, None) /\ UNCHANGED <<index, expression>>
       ELSE CASE node[1].node = "Function" ->
                    \* self.resolve_location(func.as_expr())
                    /\ index' = node[1].as_expr
                    /\ pc' = "resolve_location"
                    /\ UNCHANGED <<expression, found, result>>
              [] node[1].node = "Expression" ->
                    /\ expression' = node[1].expression
                    /\ pc' = "resolve_expression_location"
                    /\ UNCHANGED <<index, found, result>>
              [] OTHER ->
                    and_then_resolved(query, None) /\ UNCHANGED <<index, expression>>
    /\ UNCHANGED <<interner, query, location>>

(***************************************************************************)
(* resolve_expression_location(expression)                                 *)
(***************************************************************************)
resolve_expression_location ==
    /\ pc = "resolve_expression_location"
    /\ CASE expression.kind = "Ident" ->
                /\ and_then_resolved(query, resolve_ident_location(expression))
                /\ UNCHANGED index
         [] expression.kind = "Constructor" ->
                /\ and_then_resolved(query, Some(interner.structs[expression.type].location))
                /\ UNCHANGED index
         [] expression.kind = "MemberAccess" ->
                /\ and_then_resolved(query, resolve_struct_member_access(expression))
                /\ UNCHANGED index
         [] expression.kind = "Call" ->
                \* self.resolve_location(expr_call.func)
                /\ index' = expression.func
                /\ pc' = "resolve_location"
                /\ UNCHANGED <<found, result>>
         [] OTHER ->
                and_then_resolved(query, None) /\ UNCHANGED index
    /\ UNCHANGED <<interner, query, location, expression, visited>>

Next ==
    \/ \E loc \in Locations : get_definition_location_from(loc)
    \/ \E loc \in Locations : get_declaration_location_from(loc)
    \/ or_else_trait_impl
    \/ or_else_trait_method_declaration
    \/ or_else_find_location_index
    \/ and_then_found_impl_location
    \/ resolve_location
    \/ resolve_expression_location

Spec == Init /\ [][Next]_vars
SpecFind == InitFind /\ [][Next]_vars
SpecNodes == InitNodes /\ [][Next]_vars
SpecIdent == InitIdent /\ [][Next]_vars
SpecMember == InitMember /\ [][Next]_vars
SpecImpl == InitImpl /\ [][Next]_vars
SpecMethod == InitMethod /\ [][Next]_vars
SpecCall == InitCall /\ [][Next]_vars

\* a query is one synchronous call: every enabled step is taken
FairSpecNodes == SpecNodes /\ WF_vars(Next)


(***************************************************************************)
(* Properties.                                                             *)
(***************************************************************************)
\* a recorded or declared location encloses the queried one
Encloses(outer, inner) ==
    /\ outer.file = inner.file
    /\ outer.span.start <= inner.span.start
    /\ inner.span.end <= outer.span.end

SpanSize(span) == span.end - span.start

\* the step that calls find_location_index on the query, in either chain
FindStep == (pc = "idle" /\ query' = "definition") \/ pc = "or_else_find_location_index"

\* the positions of the location table whose location encloses loc
Candidates(loc) ==
    {k \in 1..Len(interner.id_to_location) : Encloses(interner.id_to_location[k].location, loc)}

(***************************************************************************)
(* C3: find_location_index finds no index exactly when no recorded          *)
(* location encloses the query; otherwise it finds the index of an          *)
(* enclosing location whose span is no larger than that of any other        *)
(* enclosing one, and never the index of a location that strictly encloses  *)
(* another enclosing location of the same file.                             *)
(***************************************************************************)
InnermostMatch ==
    [][FindStep =>
        LET entries == interner.id_to_location
            cands == Candidates(location')
        IN  IF cands = {}
            THEN pc' # "resolve_location"
            ELSE /\ pc' = "resolve_location"
                 /\ \E k \in cands :
                       /\ entries[k].index = index'
                       /\ \A j \in cands :
                             SpanSize(entries[k].location.span) <= SpanSize(entries[j].location.span)
                 /\ \A a \in 1..Len(entries), b \in cands :
                       (/\ Encloses(entries[a].location, entries[b].location)
                        /\ entries[a].location # entries[b].location)
                       => index' # entries[a].index]_vars

\* the index found is that of the later, strictly inner of two enclosing locations
InnermostMatchWitness ==
    /\ pc = "resolve_location"
    /\ visited = {}
    /\ \E a, b \in Candidates(location) :
          /\ a < b
          /\ SpanSize(interner.id_to_location[b].location.span)
                < SpanSize(interner.id_to_location[a].location.span)
          /\ index = interner.id_to_location[b].index


(***************************************************************************)
(* The Node Resolver as a function of the index it starts from: the value  *)
(* resolve_location returns, None when `fuel` nested calls do not reach it. *)
(***************************************************************************)
RECURSIVE node_resolver(_, _)
node_resolver(i, fuel) ==
    IF fuel = 0 \/ nodes_get(i) = None THEN None
    ELSE LET node == nodes_get(i)[1] IN
         IF node.node = "Function" THEN node_resolver(node.as_expr, fuel - 1)
         ELSE IF node.node # "Expression" THEN None
         ELSE LET e == node.expression IN
              CASE e.kind = "Call" -> node_resolver(e.func, fuel - 1)
                [] e.kind = "Ident" ->
                     LET info == interner.definitions[e.id] IN
                     IF info.kind = "Function"
                     THEN Some((CHOOSE m \in {interner.func_meta[k] : k \in 1..Len(interner.func_meta)} :
                                    m.id = info.func_id).location)
                     ELSE IF info.kind \in {"Local", "Global"} THEN Some(info.location)
                     ELSE None
                [] e.kind = "Constructor" -> Some(interner.structs[e.type].location)
                [] e.kind = "MemberAccess" -> resolve_struct_member_access(e)
                [] OTHER -> None

\* the Node Resolver applied to the index find_location_index returns for loc
FirstResolver(loc) ==
    LET found_index == find_location_index(loc) IN
    IF found_index = None THEN None ELSE node_resolver(found_index[1], MaxIndex + 1)

(***************************************************************************)
(* C1: get_definition_location_from returns the first Some among the Node  *)
(* Resolver on the index found for the query, the trait impl resolver on    *)
(* the query and the trait method declaration resolver on the query, and    *)
(* None exactly when all three are None.                                    *)
(***************************************************************************)
DefinitionFirstSuccess ==
    (pc = "done" /\ query = "definition") =>
        LET first == FirstResolver(location)
            second == try_resolve_trait_impl_location(location)
            third == try_resolve_trait_method_declaration(location)
        IN  /\ found = first
            /\ result = IF first # None THEN first
                        ELSE IF second # None THEN second ELSE third
            /\ (result = None) <=> (first = None /\ second = None /\ third = None)

\* both the trait impl resolver and the declaration resolver succeed, and the impl's answer is returned
DefinitionFirstSuccessWitness ==
    /\ pc = "done"
    /\ query = "definition"
    /\ visited # {}
    /\ found = None
    /\ try_resolve_trait_impl_location(location) # None
    /\ try_resolve_trait_method_declaration(location) # None
    /\ try_resolve_trait_method_declaration(location) # try_resolve_trait_impl_location(location)
    /\ result = try_resolve_trait_impl_location(location)

(***************************************************************************)
(* C2: get_declaration_location_from returns the trait method declaration  *)
(* resolved from the query when there is one; otherwise the one resolved    *)
(* from the location the Node Resolver yields for the query, and None when  *)
(* no index is found, the Node Resolver yields None, or that second attempt *)
(* yields None.                                                             *)
(***************************************************************************)
DeclarationSecondHop ==
    (pc = "done" /\ query = "declaration") =>
        LET direct == try_resolve_trait_method_declaration(location)
            resolved == FirstResolver(location)
        IN  result = IF direct # None THEN direct
                     ELSE IF resolved = None THEN None
                     ELSE try_resolve_trait_method_declaration(resolved[1])

\* the answer comes from the resolved location, the query itself resolving to nothing
DeclarationSecondHopWitness ==
    /\ pc = "done"
    /\ query = "declaration"
    /\ try_resolve_trait_method_declaration(location) = None
    /\ found # None
    /\ result # None
    /\ result # found


\* the least of a nonempty set of positions
Least(S) == CHOOSE k \in S : \A j \in S : k <= j

\* the impl records whose file is that of loc and whose trait identifier encloses loc
ImplsAt(loc) ==
    {k \in 1..Len(interner.trait_implementations) :
        Encloses([file |-> interner.trait_implementations[k].file,
                  span |-> interner.trait_implementations[k].ident_span], loc)}

\* the trait referenced by the first impl record at loc
FirstImplTrait(loc) == interner.traits[interner.trait_implementations[Least(ImplsAt(loc))].trait_id]

(***************************************************************************)
(* C5 as stated: a definition query on the trait identifier of an impl      *)
(* record returns the declaration location of the trait of the first such   *)
(* record, when that trait is in the registry.                              *)
(***************************************************************************)
TraitImplJump ==
    (/\ pc = "done"
     /\ query = "definition"
     /\ ImplsAt(location) # {}
     /\ FirstImplTrait(location) # None)
    => result = Some(FirstImplTrait(location)[1].location)

(***************************************************************************)
(* C5 amended: the same, provided the Node Resolver path yields nothing for *)
(* the query (no index is found, or the node found resolves to None).       *)
(***************************************************************************)
TraitImplJumpAfterNodeResolver ==
    (/\ pc = "done"
     /\ query = "definition"
     /\ ImplsAt(location) # {}
     /\ FirstImplTrait(location) # None
     /\ FirstResolver(location) = None)
    => result = Some(FirstImplTrait(location)[1].location)

\* two impl records of different traits at the query, the node found resolving to None
TraitImplJumpWitness ==
    /\ pc = "done"
    /\ query = "definition"
    /\ visited # {}
    /\ found = None
    /\ \E a, b \in ImplsAt(location) :
          /\ a < b
          /\ interner.trait_implementations[a].trait_id = 1
          /\ interner.trait_implementations[b].trait_id # 1
    /\ result = Some(interner.traits[1][1].location)


\* the functions, by position in func_meta, whose FunctionMeta location encloses loc
FunctionsAt(loc) ==
    {k \in 1..Len(interner.func_meta) : Encloses(interner.func_meta[k].location, loc)}

\* the methods of a trait, by position, named like the function at position k of func_meta
MethodsNamedLike(trait, k) ==
    {m \in 1..Len(trait.methods) : trait.methods[m].name = interner.func_meta[k].name}

\* what the claim says try_resolve_trait_method_declaration(loc) is
DeclarationOfFirstFunction(loc) ==
    IF FunctionsAt(loc) = {} THEN None
    ELSE LET k == Least(FunctionsAt(loc))
             assoc == interner.func_id_to_trait[interner.func_meta[k].id]
         IN  IF assoc = None \/ interner.traits[assoc[1]] = None THEN None
             ELSE LET trait == interner.traits[assoc[1]][1] IN
                  IF MethodsNamedLike(trait, k) = {} THEN None
                  ELSE Some(trait.methods[Least(MethodsNamedLike(trait, k))].location)

(***************************************************************************)
(* C9: try_resolve_trait_method_declaration commits to the first function   *)
(* in stored order whose FunctionMeta location encloses the query: None     *)
(* when there is none, when it implements no trait or when its trait has no *)
(* method of its name, whatever later functions enclose the query; else the *)
(* declaration location of the first method of that name.                   *)
(***************************************************************************)
CommitsToFirstFunction ==
    [][/\ pc = "or_else_trait_method_declaration"
          => result' = DeclarationOfFirstFunction(location)
       /\ pc = "and_then_found_impl_location"
          => result' = DeclarationOfFirstFunction(found[1])
       /\ (pc = "idle" /\ query' = "declaration")
          => IF DeclarationOfFirstFunction(location') = None
             THEN pc' = "or_else_find_location_index"
             ELSE pc' = "done" /\ result' = DeclarationOfFirstFunction(location')]_vars

\* the first function at the query implements no trait, a later one a trait with a method of its name
CommitsToFirstFunctionWitness ==
    /\ pc = "done"
    /\ query = "definition"
    /\ found = None
    /\ try_resolve_trait_impl_location(location) = None
    /\ result = None
    /\ \E a, b \in FunctionsAt(location) :
          /\ a < b
          /\ a = Least(FunctionsAt(location))
          /\ interner.func_id_to_trait[interner.func_meta[a].id] = None
          /\ interner.func_id_to_trait[interner.func_meta[b].id] # None
          /\ interner.traits[interner.func_id_to_trait[interner.func_meta[b].id][1]] # None
          /\ MethodsNamedLike(interner.traits[interner.func_id_to_trait[interner.func_meta[b].id][1]][1], b) # {}


\* the node at slot i is the expression of kind `kind`
IsExpression(i, kind) ==
    /\ i \in Indexes
    /\ interner.nodes[i].node = "Expression"
    /\ interner.nodes[i].expression.kind = kind

\* the query lies on a call whose callee is an identifier bound to a function
CallOfFunction(loc) ==
    /\ find_location_index(loc) # None
    /\ IsExpression(find_location_index(loc)[1], "Call")
    /\ IsExpression(interner.nodes[find_location_index(loc)[1]].expression.func, "Ident")
    /\ interner.definitions[
          interner.nodes[interner.nodes[find_location_index(loc)[1]].expression.func].expression.id
       ].kind = "Function"

\* the position in func_meta of the function the callee at loc is bound to
Callee(loc) ==
    CHOOSE k \in 1..Len(interner.func_meta) :
        interner.func_meta[k].id =
            interner.definitions[
                interner.nodes[interner.nodes[find_location_index(loc)[1]].expression.func].expression.id
            ].func_id

\* that function implements a method of a registered trait
ImplementsTraitMethod(k) ==
    /\ interner.func_id_to_trait[interner.func_meta[k].id] # None
    /\ interner.traits[interner.func_id_to_trait[interner.func_meta[k].id][1]] # None
    /\ MethodsNamedLike(interner.traits[interner.func_id_to_trait[interner.func_meta[k].id][1]][1], k) # {}

\* the declaration, in its trait, of the method the function at position k implements
TraitDeclarationOf(k) ==
    LET trait == interner.traits[interner.func_id_to_trait[interner.func_meta[k].id][1]][1]
    IN  trait.methods[Least(MethodsNamedLike(trait, k))].location

(***************************************************************************)
(* C4: on a call whose callee is bound to a function implementing a trait   *)
(* method, the definition query returns the function's own FunctionMeta     *)
(* location and the declaration query returns the declaration of that       *)
(* method in the trait, wherever the call site is written.                  *)
(***************************************************************************)
TraitCallDivergence ==
    (/\ pc = "done"
     /\ CallOfFunction(location)
     /\ ImplementsTraitMethod(Callee(location)))
    => /\ query = "definition" => result = Some(interner.func_meta[Callee(location)].location)
       /\ query = "declaration" => result = Some(TraitDeclarationOf(Callee(location)))


\* the FunctionMeta of function f
MetaOf(f) ==
    CHOOSE m \in {interner.func_meta[k] : k \in 1..Len(interner.func_meta)} : m.id = f

(***************************************************************************)
(* C7: an identifier resolves by the kind of its DefinitionInfo alone: a    *)
(* Function to the FunctionMeta location of that function, a Local or a     *)
(* Global to the location of the DefinitionInfo, any other kind to None.    *)
(***************************************************************************)
IdentByKind ==
    [][(pc = "resolve_expression_location" /\ expression.kind = "Ident") =>
        LET info == interner.definitions[expression.id] IN
        found' = IF info.kind = "Function" THEN Some(MetaOf(info.func_id).location)
                 ELSE IF info.kind \in {"Local", "Global"} THEN Some(info.location)
                 ELSE None]_vars

\* an identifier of a function resolved to the function's location, which is not its DefinitionInfo's
IdentByKindWitness ==
    /\ pc = "done"
    /\ query = "definition"
    /\ expression.kind = "Ident"
    /\ interner.definitions[expression.id].kind = "Function"
    /\ result = Some(MetaOf(interner.definitions[expression.id].func_id).location)
    /\ result # Some(interner.definitions[expression.id].location)
    /\ ~Encloses(result[1], location)

\* what the claim says `lhs.rhs` resolves to
MemberLocation(access) ==
    LET lhs_type == interner.id_to_type[access.lhs] IN
    IF lhs_type.type # "Struct" THEN None
    ELSE LET struct == interner.structs[lhs_type.struct]
             named == {k \in 1..Len(struct.fields) : struct.fields[k].name = access.rhs}
         IN  IF named = {} THEN None
             ELSE Some([file |-> struct.location.file, span |-> struct.fields[Least(named)].span])

(***************************************************************************)
(* C6: a member access resolves to None when the type of its left side is   *)
(* no struct or the struct has no field of that name, and otherwise to the  *)
(* span of the first field of that name in the file of the struct.          *)
(***************************************************************************)
MemberAccessField ==
    [][(pc = "resolve_expression_location" /\ expression.kind = "MemberAccess")
        => found' = MemberLocation(expression)]_vars

\* two fields of the name: the span of the first, in the file of the struct and not of the query
MemberAccessFieldWitness ==
    /\ pc = "done"
    /\ query = "definition"
    /\ expression.kind = "MemberAccess"
    /\ result # None
    /\ result[1].file # location.file
    /\ \E a, b \in 1..Len(interner.structs[interner.id_to_type[expression.lhs].struct].fields) :
          LET fields == interner.structs[interner.id_to_type[expression.lhs].struct].fields IN
          /\ a < b
          /\ fields[a].name = expression.rhs
          /\ fields[b].name = expression.rhs
          /\ fields[a].span # fields[b].span
          /\ result[1].span = fields[a].span

\* the Node Resolver is about to answer None: no node, a node of another kind, or an expression of another kind
ResolvesToNothing ==
    \/ /\ pc = "resolve_location"
       /\ interner.nodes[index].node \notin {"Function", "Expression"}
    \/ /\ pc = "resolve_expression_location"
       /\ expression.kind \notin {"Ident", "Constructor", "MemberAccess", "Call"}

(***************************************************************************)
(* C8: when the index has no node, the node is neither a function nor an    *)
(* expression, or the expression is of no resolved kind, the Node Resolver  *)
(* returns None: the definition query goes on to its trait fallbacks with   *)
(* the query unchanged, the declaration query returns None.                 *)
(***************************************************************************)
NoneIsNoFault ==
    [][ResolvesToNothing =>
        /\ found' = None
        /\ location' = location
        /\ query = "definition" => pc' = "or_else_trait_impl"
        /\ query = "declaration" => pc' = "done" /\ result' = None]_vars

\* after a call into a statement node the definition query stands at its first fallback
NoneIsNoFaultWitness ==
    /\ pc = "or_else_trait_impl"
    /\ Cardinality(visited) > 1
    /\ interner.nodes[index].node = "Statement"
    /\ found = None

\* the index resolve_location recurses on from slot i, 0 when it does not recurse
Recursion(i) ==
    IF i = 0 THEN 0
    ELSE IF interner.nodes[i].node = "Function" THEN interner.nodes[i].as_expr
    ELSE IF interner.nodes[i].node = "Expression" /\ interner.nodes[i].expression.kind = "Call"
         THEN interner.nodes[i].expression.func
    ELSE 0

RECURSIVE Follow(_, _)
Follow(i, n) == IF n = 0 THEN i ELSE Follow(Recursion(i), n - 1)

OnCycle(i) == \E n \in 1..MaxIndex : Follow(i, n) = i

Acyclic == \A i \in Indexes : ~OnCycle(i)

(***************************************************************************)
(* C10: when the body and callee references of the node store form no       *)
(* cycle, resolve_location is never called twice with the same index and    *)
(* every query returns; a query that returns has met no node on a cycle,    *)
(* so nothing else ends the recursion.                                      *)
(***************************************************************************)
TerminatesWhenAcyclic ==
    /\ []((pc = "resolve_location" /\ Acyclic) => index \notin visited)
    /\ [](pc = "done" => \A i \in visited : ~OnCycle(i))
    /\ (pc # "idle" /\ Acyclic) ~> (pc = "done")

\* a query that returned after recursing through every slot of the store
TerminatesWhenAcyclicWitness ==
    /\ pc = "done"
    /\ Acyclic
    /\ visited = Indexes

=============================================================================
